---- MODULE Spec2Model ----
(***************************************************************************)
(* Verification model of the AudioTransLocal transcription engine:         *)
(*   - TranscriptionStateMachine      (app/models/transcription.py)        *)
(*   - TranscriptionService and WhisperTranscriptionWorker                 *)
(*                                    (app/services/transcription_service) *)
(*   - ModelDownloadWorker, WhisperModelDownloadTask, WhisperModelManager  *)
(*                                    (app/workers, app/services)          *)
(*   - TranscriptionWorker            (app/workers/transcription_worker)   *)
(* Each component has its own specification (SpecFSM, SpecService,         *)
(* SpecDownload, SpecWorker); the variables of the other components stay   *)
(* at their initial values.                                                *)
(***************************************************************************)
EXTENDS Integers, Sequences, FiniteSets, TLC

VARIABLES
    \* ---- TranscriptionStateMachine ----
    current_state,      \* self._current_state
    progress,           \* self._progress (TranscriptionProgress snapshot)
    state_history,      \* self._state_history
    fsm_pc,             \* position inside transition_to
    fsm_args,           \* arguments of the transition_to call in flight
    fsm_result,         \* outcome of the last completed call
    fsm_successes,      \* transition_to calls that returned True since the
                        \* machine was in its constructed state (history)
    \* ---- TranscriptionService / WhisperTranscriptionWorker ----
    whisper_available,  \* WHISPER_AVAILABLE (module level, set at import)
    selected_model,     \* the manager's persisted model selection
    manager_class,      \* class of the object injected as whisper_model_manager
    workers,            \* WhisperTranscriptionWorker objects created so far
    current_worker,     \* TranscriptionService.current_worker (0 = None)
    main_pc,            \* position of the coordinating (main) thread
    wait_worker,        \* the worker cancel_transcription is waiting for (0 = none)
    pending,            \* emitted transcription_completed signals not yet handled
    svc_call,           \* last call on the service and the signals it emitted
    \* ---- model file on disk (WhisperModelManager / ModelDownloadWorker) ----
    file_exists,        \* a file exists at destination_path
    file_size,          \* its size in bytes
    file_content,       \* what its bytes are
    mgr_call,           \* last call on WhisperModelManager and its result
    models_config,      \* WhisperModelManager._models_config
    config_input,       \* what whisper_models.json held when it was loaded (history)
    catalog_call,       \* last catalog query on the manager and its result
    services,           \* ServiceContainer._services: name -> instance, 0 when absent
    recipes,            \* ServiceContainer._recipes: name -> recipe
    creating,           \* ServiceContainer._creating
    get_stack,          \* the get calls in progress, innermost last
    next_instance,      \* identity of the next object a recipe creates
    first_instance,     \* name -> instance of the first get that returned (history)
    get_outcome,        \* the get call that finished last and its outcome
    \* ---- WhisperModelDownloadTask / ModelDownloadWorker ----
    expected_sha256,    \* checksum on record for the model ("" = none)
    task_pc,            \* position inside WhisperModelDownloadTask.download
    task_cancelled,     \* WhisperModelDownloadTask._cancelled
    task_events,        \* signals emitted by the task itself
    dl_pc,              \* position of ModelDownloadWorker ("absent" = not created)
    dl_cancelled,       \* ModelDownloadWorker._cancelled
    dl_remaining,       \* bytes of the response body not yet read
    dl_body,            \* what the server sends
    dl_report,          \* terminal signal about to be emitted
    dl_events,          \* signals emitted by the worker
    dl_cancel_phase,    \* when cancel was called (history)
    \* ---- TranscriptionWorker (chunked executor) ----
    tw_pc,              \* position inside TranscriptionWorker.run
    tw_duration,        \* duration returned by _get_audio_duration
    tw_sample,          \* window extracted for language detection
    tw_language,        \* detected_language
    tw_num_chunks,      \* num_chunks
    tw_i,               \* loop index i of _transcribe_in_chunks
    transcript_exists,  \* the transcript file exists
    transcript,         \* what has been written to the transcript file object
    tw_flushed,         \* how much of it has left the write buffer for the disk
    tw_done_chunks,     \* chunks processed so far (history)
    tw_error,           \* what made the job fail ("none" = nothing)
    tw_events           \* signals emitted by the worker

fsmVars == <<current_state, progress, state_history, fsm_pc, fsm_args, fsm_result,
             fsm_successes>>

svcVars == <<whisper_available, selected_model, manager_class, workers, current_worker, main_pc,
             wait_worker, pending, svc_call>>

fileVars == <<file_exists, file_size, file_content>>

mgrVars == <<mgr_call>>

catalogVars == <<models_config, config_input, catalog_call>>

containerVars ==
    <<services, recipes, creating, get_stack, next_instance, first_instance, get_outcome>>

dlVars == <<expected_sha256, task_pc, task_cancelled, task_events, dl_pc, dl_cancelled,
            dl_remaining, dl_body, dl_report, dl_events, dl_cancel_phase>>

twVars == <<tw_pc, tw_duration, tw_sample, tw_language, tw_num_chunks, tw_i,
            transcript_exists, transcript, tw_flushed, tw_done_chunks, tw_error, tw_events>>

vars == <<fsmVars, svcVars, fileVars, mgrVars, catalogVars, containerVars, dlVars, twVars>>

\* what the actions of one component leave alone
fsmFrame == <<svcVars, fileVars, mgrVars, catalogVars, dlVars, twVars, containerVars>>
svcFrame == <<fsmVars, fileVars, mgrVars, catalogVars, dlVars, twVars, containerVars>>
dlFrame == <<fsmVars, svcVars, mgrVars, catalogVars, twVars, containerVars>>
twFrame == <<fsmVars, svcVars, fileVars, mgrVars, catalogVars, dlVars, containerVars>>
mgrFrame == <<fsmVars, fileVars, catalogVars, dlVars, twVars, containerVars>>
catalogFrame == <<fsmVars, svcVars, fileVars, mgrVars, dlVars, twVars, containerVars>>

\* ------------------------------------------------------------------------
\* Bounds
\* ------------------------------------------------------------------------
MaxHistory == 4
MaxWorkers == 2
MaxBodyChunks == 18
MaxAudioChunks == 3

Max(a, b) == IF a >= b THEN a ELSE b
Min(a, b) == IF a <= b THEN a ELSE b

\* ------------------------------------------------------------------------
\* TranscriptionStateMachine
\* ------------------------------------------------------------------------
TranscriptionState ==
    {"READY", "PREPARING", "DETECTING_LANGUAGE", "TRANSCRIBING",
     "POST_PROCESSING", "COMPLETED", "FAILED", "CANCELLED"}

VALID_TRANSITIONS_restart_skips_ready ==
    [s \in TranscriptionState |->
        CASE s = "READY"              -> {"PREPARING", "CANCELLED"}
          [] s = "PREPARING"          -> {"DETECTING_LANGUAGE", "TRANSCRIBING", "FAILED", "CANCELLED"}
          [] s = "DETECTING_LANGUAGE" -> {"TRANSCRIBING", "FAILED", "CANCELLED"}
          [] s = "TRANSCRIBING"       -> {"POST_PROCESSING", "COMPLETED", "FAILED", "CANCELLED"}
          [] s = "POST_PROCESSING"    -> {"COMPLETED", "FAILED", "CANCELLED"}
          [] s = "COMPLETED"          -> {"READY", "PREPARING"}
          [] s = "FAILED"             -> {"READY", "PREPARING"}
          [] s = "CANCELLED"          -> {"READY"}]

VALID_TRANSITIONS ==
    [s \in TranscriptionState |->
        CASE s = "READY"              -> {"PREPARING", "CANCELLED"}
          [] s = "PREPARING"          -> {"DETECTING_LANGUAGE", "TRANSCRIBING", "FAILED", "CANCELLED"}
          [] s = "DETECTING_LANGUAGE" -> {"TRANSCRIBING", "FAILED", "CANCELLED"}
          [] s = "TRANSCRIBING"       -> {"POST_PROCESSING", "COMPLETED", "FAILED", "CANCELLED"}
          [] s = "POST_PROCESSING"    -> {"COMPLETED", "FAILED", "CANCELLED"}
          [] s = "COMPLETED"          -> {"READY"}
          [] s = "FAILED"             -> {"READY"}
          [] s = "CANCELLED"          -> {"READY"}]

\* inputs of transition_to
PercentageInputs == {-5, 0, 50, 100, 150}
MessageInputs == {"", "working"}

TranscriptionProgress(state, percentage, message) ==
    [state |-> state, percentage |-> percentage, message |-> message]

NoCall == [op |-> "none", from |-> "READY", target |-> "READY", outcome |-> "none"]
NoArgs == [new_state |-> "READY", percentage |-> 0, message |-> ""]

is_active(s) == s \in {"PREPARING", "DETECTING_LANGUAGE", "TRANSCRIBING", "POST_PROCESSING"}
is_terminal(s) == s \in {"COMPLETED", "FAILED", "CANCELLED"}

can_transition_to_selfloop(s, new_state) == new_state \in (VALID_TRANSITIONS[s] \cup {s})

can_transition_to(s, new_state) == new_state \in VALID_TRANSITIONS[s]

ClampPercentage_unclamped(percentage) == percentage

ClampPercentage(percentage) == Max(0, Min(100, percentage))

FsmInit ==
    /\ current_state = "READY"
    /\ progress = TranscriptionProgress("READY", 0, "")
    /\ state_history = <<TranscriptionProgress("READY", 0, "")>>
    /\ fsm_pc = "idle"
    /\ fsm_args = NoArgs
    /\ fsm_result = NoCall
    /\ fsm_successes = 0

\* transition_to, lines 188-195: the validity check, the raise, and the
\* assignment of _current_state
TransitionToCheck(new_state, percentage, message) ==
    /\ fsm_pc = "idle"
    /\ IF ~can_transition_to(current_state, new_state)
       THEN /\ fsm_result' = [op |-> "transition_to", from |-> current_state,
                              target |-> new_state, outcome |-> "ValueError"]
            /\ UNCHANGED <<current_state, progress, state_history, fsm_pc, fsm_args>>
       ELSE /\ Len(state_history) < MaxHistory
            /\ current_state' = new_state
            /\ fsm_args' = [new_state |-> new_state, percentage |-> percentage,
                            message |-> message]
            /\ fsm_result' = [op |-> "transition_to", from |-> current_state,
                              target |-> new_state, outcome |-> "running"]
            /\ fsm_pc' = "set_progress"
            /\ UNCHANGED <<progress, state_history>>
    /\ UNCHANGED fsm_successes

\* transition_to, lines 196-203: the new progress snapshot
TransitionToSetProgress ==
    /\ fsm_pc = "set_progress"
    /\ progress' = TranscriptionProgress(fsm_args.new_state,
                                         ClampPercentage(fsm_args.percentage),
                                         fsm_args.message)
    /\ fsm_pc' = "append"
    /\ UNCHANGED <<current_state, state_history, fsm_args, fsm_result, fsm_successes>>

TransitionToAppend_skips_history ==
    /\ fsm_pc = "append"
    /\ fsm_result' = [fsm_result EXCEPT !.outcome = "True"]
    /\ fsm_successes' = fsm_successes + 1
    /\ fsm_pc' = "idle"
    /\ fsm_args' = NoArgs
    /\ UNCHANGED <<current_state, progress, state_history>>

\* transition_to, lines 205-208: history append and return True
TransitionToAppend ==
    /\ fsm_pc = "append"
    /\ state_history' = Append(state_history, progress)
    /\ fsm_result' = [fsm_result EXCEPT !.outcome = "True"]
    /\ fsm_successes' = fsm_successes + 1
    /\ fsm_pc' = "idle"
    /\ fsm_args' = NoArgs
    /\ UNCHANGED <<current_state, progress>>

\* reset, lines 210-214: back to the state __init__ constructs
Reset ==
    /\ fsm_pc = "idle"
    /\ fsm_successes' = 0
    /\ current_state' = "READY"
    /\ progress' = TranscriptionProgress("READY", 0, "")
    /\ state_history' = <<TranscriptionProgress("READY", 0, "")>>
    /\ fsm_result' = [op |-> "reset", from |-> current_state,
                      target |-> "READY", outcome |-> "None"]
    /\ UNCHANGED <<fsm_pc, fsm_args>>

TransitionTo ==
    \E t \in TranscriptionState, p \in PercentageInputs, m \in MessageInputs :
        TransitionToCheck(t, p, m)

NextFSM ==
    \/ (TransitionTo /\ UNCHANGED fsmFrame)
    \/ (TransitionToSetProgress /\ UNCHANGED fsmFrame)
    \/ (TransitionToAppend /\ UNCHANGED fsmFrame)
    \/ (Reset /\ UNCHANGED fsmFrame)

\* ------------------------------------------------------------------------
\* WhisperModelManager: catalog, selection and the usability gate
\* ------------------------------------------------------------------------
ModelCatalog == {"tiny", "base"}

\* the model whose file the model tracks (the download target)
DownloadModel == "tiny"

\* 1024 * 1024, the sanity floor of is_model_downloaded
SizeFloor == 1048576

get_model_info(model_id) == model_id \in ModelCatalog

\* the selection the service asks the manager for ("" = nothing selected)
get_selected_model == selected_model

\* what TranscriptionService.__init__ may be given as whisper_model_manager:
\* the WhisperModelManager that create_container injects
\* (service_factory.py:161-163), which defines neither get_selected_model nor
\* get_model_path, or an object that provides the methods the service calls
ManagerClasses == {"WhisperModelManager", "provides_interface"}

\* the injected manager has a get_selected_model attribute
has_get_selected_model == manager_class /= "WhisperModelManager"

model_file_exists(model_id) == model_id = DownloadModel /\ file_exists

is_model_downloaded_inclusive(model_id) ==
    IF ~get_model_info(model_id) THEN FALSE
    ELSE IF model_file_exists(model_id) THEN file_size >= SizeFloor
    ELSE FALSE

\* is_model_downloaded, lines 144-170, when stat() succeeds
is_model_downloaded(model_id) ==
    IF ~get_model_info(model_id) THEN FALSE
    ELSE IF model_file_exists(model_id) THEN file_size > SizeFloor
    ELSE FALSE

\* ids a caller may pass: catalog ids, an unknown id, the empty string
ModelIds == ModelCatalog \cup {"ghost", ""}

NoMgrCall == [op |-> "none", model_id |-> "", stat_raises |-> FALSE, result |-> "none"]

\* ids that occur in catalogs
CatalogIds == {"tiny", "base", "small", "medium", "large"}

\* an entry of whisper_models is a JSON object ("ok") or something else
EntryShapes == {"ok", "malformed"}

\* self._models_config: whether it was loaded, whether its whisper_models
\* value is a mapping, and the entries of that mapping
Config(loaded, is_mapping, entries) ==
    [loaded |-> loaded, is_mapping |-> is_mapping, entries |-> entries]

\* the catalog assigned when the file does not exist, lines 72-109
BuiltinCatalog == Config(TRUE, TRUE, {<<id, "ok">> : id \in CatalogIds})

\* the catalog assigned by the except handler, lines 110-118
MinimalCatalog == Config(TRUE, TRUE, {<<id, "ok">> : id \in ModelCatalog})

NoCatalogCall == [op |-> "none", model_id |-> "", result |-> "none", ids |-> {}]

NoConfigInput == [file |-> "none", doc |-> "none", entries |-> {}]

\* the manager holds the two-model catalog that get_model_info reads
MgrInit ==
    /\ mgr_call = NoMgrCall
    /\ models_config = MinimalCatalog
    /\ config_input = NoConfigInput
    /\ catalog_call = NoCatalogCall

\* __init__ at line 51, before _load_models_config runs
CatalogInit ==
    /\ mgr_call = NoMgrCall
    /\ models_config = Config(FALSE, FALSE, {})
    /\ config_input = NoConfigInput
    /\ catalog_call = NoCatalogCall

\* ids whose entries a configuration document may hold
DocumentIds == {"tiny", "base", "small"}

\* the whisper_models mappings of a document: some ids, each with an entry
\* that is an object or is not
DocumentMappings ==
    {m \in SUBSET (DocumentIds \X EntryShapes) :
        \A a, b \in m : a[1] = b[1] => a = b}

\* a valid JSON document: its top level is not an object; it has no
\* whisper_models key; the value of that key is null, a number, or an array
\* or string; or the value is a mapping
DocumentKinds ==
    {"not_an_object", "no_models_key", "models_null", "models_number", "models_array",
     "models_mapping"}

\* what can be at resources/whisper_models.json
ConfigInputs ==
    {[file |-> f, doc |-> "none", entries |-> {}] :
        f \in {"missing", "unreadable", "invalid_json"}}
    \cup {[file |-> "valid", doc |-> k, entries |-> {}] :
        k \in DocumentKinds \ {"models_mapping"}}
    \cup {[file |-> "valid", doc |-> "models_mapping", entries |-> m] :
        m \in DocumentMappings}

\* _load_models_config, lines 60-118: the logging line 68 evaluates
\* len(config.get('whisper_models', {})), which raises for a top level
\* without get and for a value without len, and so leads to the handler
load_models_config(input) ==
    IF input.file = "missing" THEN BuiltinCatalog
    ELSE IF input.file \in {"unreadable", "invalid_json"} THEN MinimalCatalog
    ELSE IF input.doc \in {"not_an_object", "models_null", "models_number"} THEN MinimalCatalog
    ELSE IF input.doc = "no_models_key" THEN Config(TRUE, TRUE, {})
    ELSE IF input.doc = "models_array" THEN Config(TRUE, FALSE, {})
    ELSE Config(TRUE, TRUE, input.entries)

LoadModelsConfig ==
    /\ ~models_config.loaded
    /\ \E input \in ConfigInputs :
          /\ models_config' = load_models_config(input)
          /\ config_input' = input
    /\ UNCHANGED <<catalog_call, catalogFrame>>

\* get_available_models, lines 120-137: models.items() raises when
\* whisper_models is not a mapping, model_info.get raises at an entry that
\* is not an object; otherwise one element per entry
get_available_models ==
    IF ~models_config.is_mapping THEN
        [op |-> "get_available_models", model_id |-> "", result |-> "AttributeError",
         ids |-> {}]
    ELSE IF \E e \in models_config.entries : e[2] = "malformed" THEN
        [op |-> "get_available_models", model_id |-> "", result |-> "AttributeError",
         ids |-> {}]
    ELSE
        [op |-> "get_available_models", model_id |-> "", result |-> "list",
         ids |-> {e[1] : e \in models_config.entries}]

GetAvailableModels ==
    /\ models_config.loaded
    /\ catalog_call' = get_available_models
    /\ UNCHANGED <<models_config, config_input, catalogFrame>>

\* get_model_info, lines 139-142, on the loaded document: models.get(model_id)
\* raises when whisper_models is not a mapping, else the entry or None
get_model_info_loaded(model_id) ==
    IF ~models_config.is_mapping THEN
        [op |-> "get_model_info", model_id |-> model_id, result |-> "AttributeError",
         ids |-> {}]
    ELSE IF \E e \in models_config.entries : e[1] = model_id THEN
        [op |-> "get_model_info", model_id |-> model_id, result |-> "entry",
         ids |-> {model_id}]
    ELSE
        [op |-> "get_model_info", model_id |-> model_id, result |-> "None", ids |-> {}]

GetModelInfo ==
    /\ models_config.loaded
    /\ \E model_id \in DocumentIds :
          catalog_call' = get_model_info_loaded(model_id)
    /\ UNCHANGED <<models_config, config_input, catalogFrame>>

NextCatalog == LoadModelsConfig \/ GetAvailableModels \/ GetModelInfo

\* is_model_downloaded, lines 144-170, as a call: stat() may raise OSError
\* after exists() returned True (line 167), which yields False
IsModelDownloaded(model_id, stat_raises) ==
    /\ mgr_call' = [op |-> "is_model_downloaded", model_id |-> model_id,
                    stat_raises |-> stat_raises,
                    result |-> IF get_model_info(model_id) /\ model_file_exists(model_id)
                                  /\ stat_raises
                               THEN "False"
                               ELSE IF is_model_downloaded(model_id) THEN "True" ELSE "False"]
    /\ UNCHANGED <<svcVars, mgrFrame>>

\* set_current_model, lines 201-222
set_current_model(model_id) ==
    /\ IF model_id \notin ModelCatalog
       THEN /\ mgr_call' = [op |-> "set_current_model", model_id |-> model_id,
                            stat_raises |-> FALSE, result |-> "False"]
            /\ UNCHANGED selected_model
       ELSE /\ selected_model' = model_id
            /\ mgr_call' = [op |-> "set_current_model", model_id |-> model_id,
                            stat_raises |-> FALSE, result |-> "True"]
    /\ UNCHANGED <<whisper_available, manager_class, workers, current_worker, main_pc,
                   wait_worker, pending, svc_call, mgrFrame>>

IsModelDownloadedCall ==
    \E model_id \in ModelIds, stat_raises \in BOOLEAN : IsModelDownloaded(model_id, stat_raises)

SetCurrentModel == \E model_id \in ModelIds : set_current_model(model_id)

FileInitAbsent ==
    /\ file_exists = FALSE
    /\ file_size = 0
    /\ file_content = "none"

\* ------------------------------------------------------------------------
\* WhisperTranscriptionWorker (a QThread)
\* ------------------------------------------------------------------------
AudioFiles == {"a.m4a", "b.m4a"}

WorkerIds == 1..MaxWorkers

NoWorker == [pc |-> "absent", should_stop |-> FALSE, audio_file_path |-> "", events |-> <<>>]

\* QThread.isRunning(): from start() until the thread has finished, which is
\* after run() has returned
isRunning(w) == workers[w].pc \in {"run", "load_model", "transcribe", "returned"}

TerminalEvents == {"completed_ok", "completed_error"}

Emit(w, evs) == [workers[w] EXCEPT !.events = @ \o evs]

\* run, lines 59-79
WorkerRunBegin(w) ==
    /\ workers[w].pc = "run"
    /\ IF ~whisper_available
       THEN /\ workers' = [workers EXCEPT ![w] =
                    [Emit(w, <<"completed_error">>) EXCEPT !.pc = "returned"]]
            /\ pending' = pending \cup {w}
       ELSE /\ workers' = [workers EXCEPT ![w] =
                    [Emit(w, <<"progress_10">>) EXCEPT
                        !.pc = IF workers[w].should_stop THEN "returned" ELSE "load_model"]]
            /\ UNCHANGED pending
    /\ UNCHANGED <<whisper_available, selected_model, manager_class, current_worker, main_pc, wait_worker,
                   svc_call>>

\* run, lines 81-103 (and 140-146 when whisper.load_model raises)
WorkerLoadModel(w, raises) ==
    /\ workers[w].pc = "load_model"
    /\ IF raises
       THEN /\ workers' = [workers EXCEPT ![w] =
                    [Emit(w, <<"completed_error">>) EXCEPT !.pc = "returned"]]
            /\ pending' = pending \cup {w}
       ELSE /\ workers' = [workers EXCEPT ![w] =
                    IF workers[w].should_stop
                    THEN [Emit(w, <<"progress_30">>) EXCEPT !.pc = "returned"]
                    ELSE [Emit(w, <<"progress_30", "progress_50">>) EXCEPT !.pc = "transcribe"]]
            /\ UNCHANGED pending
    /\ UNCHANGED <<whisper_available, selected_model, manager_class, current_worker, main_pc, wait_worker,
                   svc_call>>

FinalSignals_progress_last == <<"progress_90", "completed_ok", "progress_100">>

\* run, lines 111-138: the signals of a successful end, in order
FinalSignals == <<"progress_90", "progress_100", "completed_ok">>

\* run, lines 105-138 (and 140-146 when model.transcribe raises)
WorkerTranscribe(w, raises) ==
    /\ workers[w].pc = "transcribe"
    /\ IF raises
       THEN /\ workers' = [workers EXCEPT ![w] =
                    [Emit(w, <<"completed_error">>) EXCEPT !.pc = "returned"]]
            /\ pending' = pending \cup {w}
       ELSE IF workers[w].should_stop
       THEN /\ workers' = [workers EXCEPT ![w].pc = "returned"]
            /\ UNCHANGED pending
       ELSE /\ workers' = [workers EXCEPT ![w] =
                    [Emit(w, FinalSignals) EXCEPT !.pc = "returned"]]
            /\ pending' = pending \cup {w}
    /\ UNCHANGED <<whisper_available, selected_model, manager_class, current_worker, main_pc, wait_worker,
                   svc_call>>

\* the thread ends after run() returned: isRunning() becomes False
WorkerThreadFinished(w) ==
    /\ workers[w].pc = "returned"
    /\ workers' = [workers EXCEPT ![w].pc = "finished"]
    /\ UNCHANGED <<whisper_available, selected_model, manager_class, current_worker, main_pc,
                   wait_worker, pending, svc_call>>

\* stop_transcription, lines 148-150
stop_transcription(w) == [workers EXCEPT ![w].should_stop = TRUE]

\* ------------------------------------------------------------------------
\* TranscriptionService
\* ------------------------------------------------------------------------
NoSvcCall == [op |-> "none", audio_file_path |-> "", result |-> "none", emitted |-> <<>>]

is_transcription_running_ignores_thread == FALSE /\ current_worker /= 0

is_transcription_running == current_worker /= 0 /\ isRunning(current_worker)

\* the next worker object to be constructed
NewWorkerId == Cardinality({w \in WorkerIds : workers[w].pc /= "absent"}) + 1

SvcInit ==
    /\ whisper_available \in BOOLEAN
    /\ selected_model \in {"", "tiny", "base", "ghost"}
    /\ manager_class \in ManagerClasses
    /\ workers = [w \in WorkerIds |-> NoWorker]
    /\ current_worker = 0
    /\ main_pc = "idle"
    /\ wait_worker = 0
    /\ pending = {}
    /\ svc_call = NoSvcCall

\* start_transcription, lines 170-217
start_transcription(audio_file_path) ==
    /\ main_pc = "idle"
    /\ IF is_transcription_running
       THEN /\ svc_call' = [op |-> "start_transcription", audio_file_path |-> audio_file_path,
                            result |-> "False", emitted |-> <<>>]
            /\ UNCHANGED <<workers, current_worker>>
       ELSE IF ~has_get_selected_model
       THEN \* line 177: the attribute lookup raises AttributeError
            /\ svc_call' = [op |-> "start_transcription", audio_file_path |-> audio_file_path,
                            result |-> "AttributeError", emitted |-> <<>>]
            /\ UNCHANGED <<workers, current_worker>>
       ELSE IF get_selected_model = ""
       THEN /\ svc_call' = [op |-> "start_transcription", audio_file_path |-> audio_file_path,
                            result |-> "False", emitted |-> <<"completed_no_model_selected">>]
            /\ UNCHANGED <<workers, current_worker>>
       ELSE IF ~is_model_downloaded(get_selected_model)
       THEN /\ svc_call' = [op |-> "start_transcription", audio_file_path |-> audio_file_path,
                            result |-> "False", emitted |-> <<"completed_not_downloaded">>]
            /\ UNCHANGED <<workers, current_worker>>
       ELSE /\ NewWorkerId \in WorkerIds
            /\ workers' = [workers EXCEPT ![NewWorkerId] =
                    [pc |-> "run", should_stop |-> FALSE,
                     audio_file_path |-> audio_file_path, events |-> <<>>]]
            /\ current_worker' = NewWorkerId
            /\ svc_call' = [op |-> "start_transcription", audio_file_path |-> audio_file_path,
                            result |-> "True", emitted |-> <<"started">>]
    /\ UNCHANGED <<whisper_available, selected_model, manager_class, main_pc, wait_worker, pending>>

StartTranscription == \E a \in AudioFiles : start_transcription(a)

\* cancel_transcription, lines 221-223: the guard, stop_transcription and the
\* beginning of wait(3000)
CancelTranscriptionBegin ==
    /\ main_pc = "idle"
    /\ IF current_worker /= 0 /\ isRunning(current_worker)
       THEN /\ workers' = stop_transcription(current_worker)
            /\ main_pc' = "cancel_wait"
            /\ wait_worker' = current_worker
            /\ svc_call' = [op |-> "cancel_transcription", audio_file_path |-> "",
                            result |-> "waiting", emitted |-> <<>>]
       ELSE /\ svc_call' = [op |-> "cancel_transcription", audio_file_path |-> "",
                            result |-> "None", emitted |-> <<>>]
            /\ UNCHANGED <<workers, main_pc, wait_worker>>
    /\ UNCHANGED <<whisper_available, selected_model, manager_class, current_worker, pending>>

\* wait(3000) returns when the thread has finished, or after 3 seconds, which
\* a whisper.load_model or model.transcribe call in progress can outlast
WaitReturns(w) ==
    \/ ~isRunning(w)
    \/ workers[w].pc \in {"load_model", "transcribe"}

\* cancel_transcription, lines 223-224: wait(3000) returns and the reference
\* is dropped
CancelTranscriptionEnd ==
    /\ main_pc = "cancel_wait"
    /\ WaitReturns(wait_worker)
    /\ current_worker' = 0
    /\ main_pc' = "idle"
    /\ wait_worker' = 0
    /\ svc_call' = [svc_call EXCEPT !.result = "None"]
    /\ UNCHANGED <<whisper_available, selected_model, manager_class, workers, pending>>

\* _on_transcription_completed, lines 226-229, called through the lambda
\* connected to the worker's transcription_completed signal
on_transcription_completed(w) ==
    /\ w \in pending
    /\ pending' = pending \ {w}
    /\ current_worker' = 0
    /\ svc_call' = [op |-> "on_transcription_completed",
                    audio_file_path |-> workers[w].audio_file_path,
                    result |-> "None", emitted |-> <<"completed">>]
    /\ UNCHANGED <<whisper_available, selected_model, manager_class, workers, main_pc, wait_worker>>

WorkerRun == \E w \in WorkerIds : WorkerRunBegin(w)

WorkerLoad == \E w \in WorkerIds, raises \in BOOLEAN : WorkerLoadModel(w, raises)

WorkerTranscription == \E w \in WorkerIds, raises \in BOOLEAN : WorkerTranscribe(w, raises)

WorkerFinished == \E w \in WorkerIds : WorkerThreadFinished(w)

OnTranscriptionCompleted == \E w \in WorkerIds : on_transcription_completed(w)

\* the model file as the service finds it: absent, undersized or complete
FileInitAny ==
    /\ file_exists \in BOOLEAN
    /\ file_size \in (IF file_exists THEN {0, SizeFloor, SizeFloor + 1} ELSE {0})
    /\ file_content = (IF file_exists THEN "model" ELSE "none")

NextService ==
    \/ (StartTranscription /\ UNCHANGED svcFrame)
    \/ (CancelTranscriptionBegin /\ UNCHANGED svcFrame)
    \/ (CancelTranscriptionEnd /\ UNCHANGED svcFrame)
    \/ (OnTranscriptionCompleted /\ UNCHANGED svcFrame)
    \/ (WorkerRun /\ UNCHANGED svcFrame)
    \/ (WorkerLoad /\ UNCHANGED svcFrame)
    \/ (WorkerTranscription /\ UNCHANGED svcFrame)
    \/ (WorkerFinished /\ UNCHANGED svcFrame)

\* ------------------------------------------------------------------------
\* ModelDownloadWorker (a QRunnable run by the thread pool)
\* ------------------------------------------------------------------------
\* 64 * 1024, the chunk size passed to response.iter_bytes
ChunkSize == 65536

BodySizes == {0, 1000, ChunkSize, ChunkSize + 1000, 17 * ChunkSize, MaxBodyChunks * ChunkSize}

\* what the server can send: the model file or something else
BodyKinds == {"model", "corrupt"}

\* hashlib.sha256(...).hexdigest(): lower-case hex of the content's digest
sha256_hexdigest(content) ==
    CASE content = "model"   -> "9f2c"
      [] content = "corrupt" -> "41d0"
      [] content = "old"     -> "77aa"
      [] content = "partial" -> "e3b0"
      [] OTHER               -> "0000"

\* str.lower() on the checksums that occur
lower(str) ==
    CASE str = "9F2C" -> "9f2c"
      [] str = "41D0" -> "41d0"
      [] OTHER        -> str

\* checksums the catalog may hold for the model: none, the model's digest in
\* lower or upper case, or another digest
ExpectedChecksums == {"", "9f2c", "9F2C", "41d0"}

DlIdle ==
    /\ expected_sha256 = ""
    /\ task_pc = "off"
    /\ task_cancelled = FALSE
    /\ task_events = <<>>
    /\ dl_pc = "absent"
    /\ dl_cancelled = FALSE
    /\ dl_remaining = 0
    /\ dl_body = "none"
    /\ dl_report = "none"
    /\ dl_events = <<>>
    /\ dl_cancel_phase = "none"

DlInit ==
    /\ expected_sha256 \in ExpectedChecksums
    /\ task_pc = "idle"
    /\ task_cancelled = FALSE
    /\ task_events = <<>>
    /\ dl_pc = "absent"
    /\ dl_cancelled = FALSE
    /\ dl_remaining = 0
    /\ dl_body = "none"
    /\ dl_report = "none"
    /\ dl_events = <<>>
    /\ dl_cancel_phase = "none"

\* a file left at destination_path by an earlier download, or none
FileInitOld ==
    /\ file_exists \in BOOLEAN
    /\ file_size = (IF file_exists THEN SizeFloor + 1 ELSE 0)
    /\ file_content = (IF file_exists THEN "old" ELSE "none")

DlEmit(ev) == dl_events' = Append(dl_events, ev)

\* progress_updated is emitted at most every 100 ms; consecutive progress
\* signals are recorded once
DlEmitProgress(emit) ==
    dl_events' = IF emit /\ dl_events[Len(dl_events)] /= "progress"
                 THEN Append(dl_events, "progress") ELSE dl_events

\* _verify_sha256, lines 182-210
verify_sha256_always_true(read_fails) == TRUE

verify_sha256(read_fails) ==
    IF expected_sha256 = "" THEN TRUE
    ELSE IF read_fails \/ ~file_exists THEN FALSE
    ELSE lower(sha256_hexdigest(file_content)) = lower(expected_sha256)

\* _download_file, lines 87-103: connect and read the response head
DlConnect ==
    /\ dl_pc = "connect"
    /\ \E outcome \in {"connection_error", "http_error", "ok"} :
         IF outcome = "ok"
         THEN /\ \E size \in BodySizes, kind \in BodyKinds :
                    /\ dl_remaining' = size
                    /\ dl_body' = kind
              /\ dl_pc' = "open"
         ELSE /\ dl_pc' = "handler"
              /\ UNCHANGED <<dl_remaining, dl_body>>
    /\ DlEmit("status_connecting")
    /\ UNCHANGED <<fileVars, expected_sha256, task_pc, task_cancelled, task_events,
                   dl_cancelled, dl_report, dl_cancel_phase>>

\* _download_file, lines 106-107: open(destination_path, "wb")
DlOpen ==
    /\ dl_pc = "open"
    /\ \E open_fails \in BOOLEAN :
         IF open_fails
         THEN /\ dl_pc' = "handler"
              /\ UNCHANGED <<fileVars, dl_events>>
         ELSE /\ file_exists' = TRUE
              /\ file_size' = 0
              /\ file_content' = IF dl_remaining = 0 THEN dl_body ELSE "partial"
              /\ DlEmit("status_downloading")
              /\ dl_pc' = "loop"
    /\ UNCHANGED <<expected_sha256, task_pc, task_cancelled, task_events, dl_cancelled,
                   dl_remaining, dl_body, dl_report, dl_cancel_phase>>

\* _download_file, lines 110-143: one iteration of the chunk loop, or its end
DlChunk ==
    /\ dl_pc = "loop"
    /\ IF dl_remaining = 0
       THEN \* the iterator is exhausted
            /\ dl_pc' = "verify"
            /\ UNCHANGED <<fileVars, dl_remaining, dl_report, dl_events>>
       ELSE \E outcome \in {"chunk", "network_error", "write_error"}, emit \in BOOLEAN :
            IF outcome = "network_error"
            THEN /\ dl_pc' = "handler"
                 /\ UNCHANGED <<fileVars, dl_remaining, dl_report, dl_events>>
            ELSE IF dl_cancelled
            THEN \* lines 111-117: close, unlink, report the cancellation
                 /\ file_exists' = FALSE
                 /\ file_size' = 0
                 /\ file_content' = "none"
                 /\ dl_report' = "download_cancelled"
                 /\ dl_pc' = "report"
                 /\ UNCHANGED <<dl_remaining, dl_events>>
            ELSE IF outcome = "write_error"
            THEN /\ dl_pc' = "handler"
                 /\ UNCHANGED <<fileVars, dl_remaining, dl_report, dl_events>>
            ELSE /\ file_size' = file_size + Min(ChunkSize, dl_remaining)
                 /\ dl_remaining' = dl_remaining - Min(ChunkSize, dl_remaining)
                 /\ file_content' = IF dl_remaining' = 0 THEN dl_body ELSE "partial"
                 /\ DlEmitProgress(emit)
                 /\ UNCHANGED <<file_exists, dl_pc, dl_report>>
    /\ UNCHANGED <<expected_sha256, task_pc, task_cancelled, task_events, dl_cancelled,
                   dl_body, dl_cancel_phase>>

\* _download_file, lines 145-168: verification and the choice of the result
DlVerify ==
    /\ dl_pc = "verify"
    /\ \E read_fails \in BOOLEAN :
         IF expected_sha256 /= ""
         THEN IF verify_sha256(read_fails)
              THEN /\ dl_report' = "completed_success_verified"
                   /\ dl_events' = dl_events \o <<"status_verifying", "status_verified">>
                   /\ UNCHANGED fileVars
              ELSE /\ file_exists' = FALSE
                   /\ file_size' = 0
                   /\ file_content' = "none"
                   /\ dl_report' = "completed_failed_integrity"
                   /\ DlEmit("status_verifying")
         ELSE /\ ~read_fails
              /\ dl_report' = "completed_success"
              /\ DlEmit("status_verifying")
              /\ UNCHANGED fileVars
    /\ dl_pc' = "report"
    /\ UNCHANGED <<expected_sha256, task_pc, task_cancelled, task_events, dl_cancelled,
                   dl_remaining, dl_body, dl_cancel_phase>>

DlHandler_keeps_file ==
    /\ dl_pc = "handler"
    /\ dl_report' = "completed_failed"
    /\ dl_pc' = "report"
    /\ UNCHANGED <<fileVars, expected_sha256, task_pc, task_cancelled, task_events,
                   dl_cancelled, dl_remaining, dl_body, dl_events, dl_cancel_phase>>

\* _download_file, lines 170-178: the exception handler removes the file
DlHandler ==
    /\ dl_pc = "handler"
    /\ file_exists' = FALSE
    /\ file_size' = 0
    /\ file_content' = "none"
    /\ dl_report' = "completed_failed"
    /\ dl_pc' = "report"
    /\ UNCHANGED <<expected_sha256, task_pc, task_cancelled, task_events, dl_cancelled,
                   dl_remaining, dl_body, dl_events, dl_cancel_phase>>

DlReport_emits_twice ==
    /\ dl_pc = "report"
    /\ dl_events' = dl_events \o <<dl_report, dl_report>>
    /\ dl_pc' = "returned"
    /\ UNCHANGED <<fileVars, expected_sha256, task_pc, task_cancelled, task_events,
                   dl_cancelled, dl_remaining, dl_body, dl_report, dl_cancel_phase>>

\* the emit of the terminal signal (lines 116, 151, 159, 165, 180) and return
DlReport ==
    /\ dl_pc = "report"
    /\ DlEmit(dl_report)
    /\ dl_pc' = "returned"
    /\ UNCHANGED <<fileVars, expected_sha256, task_pc, task_cancelled, task_events,
                   dl_cancelled, dl_remaining, dl_body, dl_report, dl_cancel_phase>>

\* ------------------------------------------------------------------------
\* WhisperModelDownloadTask
\* ------------------------------------------------------------------------
\* what get_model_download_info finds for the model
DownloadInfoOutcomes == {"ok", "no_info", "no_url"}

\* the widget hands the task to the thread pool
TaskStart ==
    /\ task_pc = "idle"
    /\ task_pc' = "check_cancelled"
    /\ UNCHANGED <<fileVars, expected_sha256, task_cancelled, task_events, dl_pc,
                   dl_cancelled, dl_remaining, dl_body, dl_report, dl_events,
                   dl_cancel_phase>>

\* download, lines 324-325
TaskCheckCancelled ==
    /\ task_pc = "check_cancelled"
    /\ task_pc' = IF task_cancelled THEN "returned" ELSE "create_worker"
    /\ UNCHANGED <<fileVars, expected_sha256, task_cancelled, task_events, dl_pc,
                   dl_cancelled, dl_remaining, dl_body, dl_report, dl_events,
                   dl_cancel_phase>>

\* download, lines 327-350: the download info and the worker object
TaskCreateWorker ==
    /\ task_pc = "create_worker"
    /\ \E info \in DownloadInfoOutcomes :
         IF info = "no_info"
         THEN /\ task_events' = Append(task_events, "completed_failed_no_info")
              /\ task_pc' = "returned"
              /\ UNCHANGED dl_pc
         ELSE IF info = "no_url"
         THEN /\ task_events' = Append(task_events, "completed_failed_no_url")
              /\ task_pc' = "returned"
              /\ UNCHANGED dl_pc
         ELSE /\ dl_pc' = "created"
              /\ task_pc' = "submit"
              /\ UNCHANGED task_events
    /\ UNCHANGED <<fileVars, expected_sha256, task_cancelled, dl_cancelled, dl_remaining,
                   dl_body, dl_report, dl_events, dl_cancel_phase>>

\* download, lines 352-360: connect the signals and start the worker
TaskSubmit ==
    /\ task_pc = "submit"
    /\ dl_pc = "created"
    /\ dl_pc' = "connect"
    /\ task_pc' = "returned"
    /\ UNCHANGED <<fileVars, expected_sha256, task_cancelled, task_events, dl_cancelled,
                   dl_remaining, dl_body, dl_report, dl_events, dl_cancel_phase>>

SuccessReports == {"completed_success", "completed_success_verified"}

SuccessReported == \E i \in 1..Len(dl_events) : dl_events[i] \in SuccessReports

\* when a cancel call comes, relative to the download
CancelPhase ==
    IF dl_cancel_phase /= "none" THEN dl_cancel_phase
    ELSE IF task_pc = "idle" THEN "before_start"
    ELSE IF SuccessReported THEN "after_success"
    ELSE IF dl_pc = "returned" \/ (task_pc = "returned" /\ dl_pc = "absent") THEN "after_return"
    ELSE "during"

\* WhisperModelDownloadTask.cancel, lines 316-320
TaskCancel ==
    /\ task_pc /= "off"
    /\ ~task_cancelled
    /\ task_cancelled' = TRUE
    /\ dl_cancelled' = IF dl_pc /= "absent" THEN TRUE ELSE dl_cancelled
    /\ dl_cancel_phase' = CancelPhase
    /\ UNCHANGED <<fileVars, expected_sha256, task_pc, task_events, dl_pc, dl_remaining,
                   dl_body, dl_report, dl_events>>

\* ModelDownloadWorker.cancel, lines 69-72, called on the worker directly
WorkerCancel ==
    /\ dl_pc /= "absent"
    /\ ~dl_cancelled
    /\ dl_cancelled' = TRUE
    /\ dl_cancel_phase' = CancelPhase
    /\ UNCHANGED <<fileVars, expected_sha256, task_pc, task_cancelled, task_events, dl_pc,
                   dl_remaining, dl_body, dl_report, dl_events>>

NextDownload ==
    \/ (TaskStart /\ UNCHANGED dlFrame)
    \/ (TaskCheckCancelled /\ UNCHANGED dlFrame)
    \/ (TaskCreateWorker /\ UNCHANGED dlFrame)
    \/ (TaskSubmit /\ UNCHANGED dlFrame)
    \/ (TaskCancel /\ UNCHANGED dlFrame)
    \/ (WorkerCancel /\ UNCHANGED dlFrame)
    \/ (DlConnect /\ UNCHANGED dlFrame)
    \/ (DlOpen /\ UNCHANGED dlFrame)
    \/ (DlChunk /\ UNCHANGED dlFrame)
    \/ (DlVerify /\ UNCHANGED dlFrame)
    \/ (DlHandler /\ UNCHANGED dlFrame)
    \/ (DlReport /\ UNCHANGED dlFrame)
    \/ (StartTranscription /\ UNCHANGED svcFrame)

\* the service with the download target selected, as the download runs
SvcIdle ==
    /\ whisper_available = TRUE
    /\ selected_model = DownloadModel
    /\ manager_class = "provides_interface"
    /\ workers = [w \in WorkerIds |-> NoWorker]
    /\ current_worker = 0
    /\ main_pc = "idle"
    /\ wait_worker = 0
    /\ pending = {}
    /\ svc_call = NoSvcCall

\* no service constructed
SvcOff ==
    /\ whisper_available = TRUE
    /\ selected_model = ""
    /\ manager_class = "WhisperModelManager"
    /\ workers = [w \in WorkerIds |-> NoWorker]
    /\ current_worker = 0
    /\ main_pc = "off"
    /\ wait_worker = 0
    /\ pending = {}
    /\ svc_call = NoSvcCall

\* ------------------------------------------------------------------------
\* TranscriptionWorker (a QRunnable): duration, language, chunks
\* ------------------------------------------------------------------------
\* chunk_duration, 10 minutes in seconds
ChunkDuration == 600

\* length of the language-detection sample in seconds
SampleDuration == 120

\* durations (whole seconds) that ffmpeg.probe may report
Durations ==
    {d \in {1, 90, 119, 120, 121, 300, 599, 600, 601, 1000, 1200, 1201, 1500, 1800,
            1801, 2400} : d <= MaxAudioChunks * ChunkDuration}

Languages == {"en", "es"}

\* ceil(a / b) for positive integers
Ceil(a, b) == (a + b - 1) \div b

TwSignal(sig, chunk) == [sig |-> sig, chunk |-> chunk]

TwTerminalSignals == {"finished", "error"}

NoSample == [start_halves |-> 0, length |-> 0]

TwOff ==
    /\ tw_pc = "off"
    /\ tw_duration = 0
    /\ tw_sample = NoSample
    /\ tw_language = ""
    /\ tw_num_chunks = 0
    /\ tw_i = 0
    /\ transcript_exists = FALSE
    /\ transcript = <<>>
    /\ tw_flushed = 0
    /\ tw_done_chunks = <<>>
    /\ tw_error = "none"
    /\ tw_events = <<>>

\* the worker was constructed and handed to the thread pool; an earlier
\* transcript of the same memo may exist
TwInit ==
    /\ tw_pc = "start"
    /\ tw_duration = 0
    /\ tw_sample = NoSample
    /\ tw_language = ""
    /\ tw_num_chunks = 0
    /\ tw_i = 0
    /\ transcript_exists \in BOOLEAN
    /\ transcript = (IF transcript_exists
                     THEN <<[kind |-> "old", chunk |-> 0, hint |-> "None"]>> ELSE <<>>)
    /\ tw_flushed = Len(transcript)
    /\ tw_done_chunks = <<>>
    /\ tw_error = "none"
    /\ tw_events = <<>>

\* run, lines 113-117: any exception ends the job with the error signal
TwFail(cause, emitted) ==
    /\ tw_error' = cause
    /\ tw_events' = tw_events \o emitted \o <<TwSignal("error", 0)>>
    /\ tw_pc' = "done"

\* run, lines 85-87
TwStart ==
    /\ tw_pc = "start"
    /\ tw_events' = Append(tw_events, TwSignal("started", 0))
    /\ tw_pc' = "duration"
    /\ UNCHANGED <<tw_duration, tw_sample, tw_language, tw_num_chunks, tw_i,
                   transcript_exists, transcript, tw_flushed, tw_done_chunks, tw_error>>

\* run, lines 89-94, and _get_audio_duration
TwGetDuration ==
    /\ tw_pc = "duration"
    /\ \E probe_fails \in BOOLEAN :
         IF probe_fails
         THEN /\ TwFail("probe", <<>>)
              /\ UNCHANGED tw_duration
         ELSE /\ \E d \in Durations : tw_duration' = d
              /\ tw_pc' = "detect"
              /\ UNCHANGED <<tw_error, tw_events>>
    /\ UNCHANGED <<tw_sample, tw_language, tw_num_chunks, tw_i, transcript_exists,
                   transcript, tw_flushed, tw_done_chunks>>

DetectionSample_from_start(duration) ==
    [start_halves |-> 0, length |-> Min(duration, SampleDuration)]

DetectionSample_whole_file(duration) ==
    [start_halves |-> 0, length |-> duration]

\* _detect_language, lines 174-179: the sample window; start_time is
\* duration / 2 - 60, kept exactly as a number of half seconds
DetectionSample(duration) ==
    IF duration < SampleDuration
    THEN [start_halves |-> 0, length |-> Min(duration, SampleDuration)]
    ELSE [start_halves |-> duration - SampleDuration, length |-> SampleDuration]

\* _whisper_detect_language, lines 291-330: every failure yields 'en'
whisper_detect_language(outcome) ==
    IF outcome \in Languages THEN outcome ELSE "en"

DetectOutcomes == Languages \cup {"import_error", "exception"}

\* run, lines 96-101, and _detect_language
TwDetectLanguage ==
    /\ tw_pc = "detect"
    /\ tw_sample' = DetectionSample(tw_duration)
    /\ \E extract_fails \in BOOLEAN, outcome \in DetectOutcomes :
         IF extract_fails
         THEN /\ TwFail("detect_extract", <<TwSignal("progress_detect", 0)>>)
              /\ UNCHANGED tw_language
         ELSE /\ tw_language' = whisper_detect_language(outcome)
              /\ tw_events' = Append(tw_events, TwSignal("progress_detect", 0))
              /\ tw_pc' = "open"
              /\ UNCHANGED tw_error
    /\ UNCHANGED <<tw_duration, tw_num_chunks, tw_i, transcript_exists, transcript,
                   tw_flushed, tw_done_chunks>>

\* _transcribe_in_chunks, lines 207-215: the chunk count and the output file,
\* which open(..., 'w') truncates
TwOpenTranscript ==
    /\ tw_pc = "open"
    /\ tw_num_chunks' = Ceil(tw_duration, ChunkDuration)
    /\ \E open_fails \in BOOLEAN :
         IF open_fails
         THEN /\ TwFail("open", <<>>)
              /\ UNCHANGED <<transcript_exists, transcript, tw_flushed>>
         ELSE /\ transcript_exists' = TRUE
              /\ transcript' = <<>>
              /\ tw_flushed' = 0
              /\ tw_pc' = "chunks"
              /\ UNCHANGED <<tw_error, tw_events>>
    /\ tw_i' = 0
    /\ UNCHANGED <<tw_duration, tw_sample, tw_language, tw_done_chunks>>

TranscribeOutcomes == {"text", "import_error", "raises"}

whisper_transcribe_with_language_propagates(outcome, i, language) ==
    [raised |-> (outcome = "raises"),
     text |-> [kind |-> "text", chunk |-> i,
               hint |-> IF language /= "en" THEN language ELSE "None"]]

\* _whisper_transcribe_with_language, lines 332-397: the text, the
\* placeholder when whisper cannot be imported, or the inline error marker
whisper_transcribe_with_language(outcome, i, language) ==
    [raised |-> FALSE,
     text |-> [kind |-> CASE outcome = "text" -> "text"
                          [] outcome = "import_error" -> "placeholder"
                          [] OTHER -> "error_marker",
               chunk |-> i,
               hint |-> IF outcome = "import_error" THEN language
                        ELSE IF language /= "en" THEN language ELSE "None"]]

Separator(i) == [kind |-> "sep", chunk |-> i, hint |-> "None"]

ChunkStart(i) == i * ChunkDuration

ChunkLength_whole(i, duration) == ChunkDuration

ChunkLength(i, duration) == Min(ChunkDuration, duration - ChunkStart(i))

f_write_rewrites(content, text) == text

\* f.write on the file object opened in mode 'w' at line 215: appends
f_write(content, text) == content \o text

\* _transcribe_in_chunks, lines 216-234: one iteration of the chunk loop.
\* f.write goes to the buffer of the file object; an exception leaves the
\* with block, which closes the file and so flushes what was written
TwChunk ==
    /\ tw_pc = "chunks"
    /\ tw_i < tw_num_chunks
    /\ \E extract_fails \in BOOLEAN, outcome \in TranscribeOutcomes, write_fails \in BOOLEAN :
         LET r == whisper_transcribe_with_language(outcome, tw_i, tw_language)
             progress_signal == <<TwSignal("progress_chunk", tw_i + 1)>>
         IN  IF extract_fails
             THEN /\ TwFail("chunk_extract", progress_signal)
                  /\ tw_flushed' = Len(transcript)
                  /\ UNCHANGED <<tw_i, transcript, tw_done_chunks>>
             ELSE IF r.raised
             THEN /\ TwFail("transcribe", progress_signal)
                  /\ tw_flushed' = Len(transcript)
                  /\ UNCHANGED <<tw_i, transcript, tw_done_chunks>>
             ELSE IF write_fails
             THEN /\ TwFail("write", progress_signal)
                  /\ tw_flushed' \in tw_flushed..Len(transcript)
                  /\ UNCHANGED <<tw_i, transcript, tw_done_chunks>>
             ELSE /\ transcript' =
                        IF tw_i < tw_num_chunks - 1
                        THEN f_write(f_write(transcript, <<r.text>>), <<Separator(tw_i)>>)
                        ELSE f_write(transcript, <<r.text>>)
                  /\ tw_done_chunks' = Append(tw_done_chunks,
                        [index |-> tw_i, start |-> ChunkStart(tw_i),
                         length |-> ChunkLength(tw_i, tw_duration), outcome |-> outcome])
                  /\ tw_events' = tw_events \o progress_signal
                  /\ tw_i' = tw_i + 1
                  /\ UNCHANGED <<tw_pc, tw_error, tw_flushed>>
    /\ UNCHANGED <<tw_duration, tw_sample, tw_language, tw_num_chunks, transcript_exists>>

\* the write buffer of the transcript file object reaches the disk, in
\* order, whenever it fills (lines 215-234)
TwFlush ==
    /\ tw_pc = "chunks"
    /\ tw_flushed < Len(transcript)
    /\ tw_flushed' \in (tw_flushed + 1)..Len(transcript)
    /\ UNCHANGED <<tw_pc, tw_duration, tw_sample, tw_language, tw_num_chunks, tw_i,
                   transcript_exists, transcript, tw_done_chunks, tw_error, tw_events>>

\* _transcribe_in_chunks, line 236 (the with block closes the file), and run,
\* lines 106-111
TwFinish ==
    /\ tw_pc = "chunks"
    /\ tw_i = tw_num_chunks
    /\ tw_flushed' = Len(transcript)
    /\ tw_events' = Append(tw_events, TwSignal("finished", 0))
    /\ tw_pc' = "done"
    /\ UNCHANGED <<tw_duration, tw_sample, tw_language, tw_num_chunks, tw_i,
                   transcript_exists, transcript, tw_done_chunks, tw_error>>

NextWorker ==
    \/ (TwStart /\ UNCHANGED twFrame)
    \/ (TwGetDuration /\ UNCHANGED twFrame)
    \/ (TwDetectLanguage /\ UNCHANGED twFrame)
    \/ (TwOpenTranscript /\ UNCHANGED twFrame)
    \/ (TwChunk /\ UNCHANGED twFrame)
    \/ (TwFlush /\ UNCHANGED twFrame)
    \/ (TwFinish /\ UNCHANGED twFrame)

\* ------------------------------------------------------------------------
\* WhisperModelManager: integrity verification, and the file as others
\* change it
\* ------------------------------------------------------------------------
\* get_model_download_info(model_id)["sha256"], lines 234-250; only the
\* download target has a checksum on record ("" = none)
sha256_on_record(model_id) == IF model_id = DownloadModel THEN expected_sha256 ELSE ""

verify_model_integrity_case_sensitive(model_id, io_fails) ==
    IF ~get_model_info(model_id) THEN FALSE
    ELSE IF sha256_on_record(model_id) = ""
    THEN IF model_file_exists(model_id) /\ io_fails THEN FALSE
         ELSE is_model_downloaded(model_id)
    ELSE IF ~model_file_exists(model_id) THEN FALSE
    ELSE IF io_fails THEN FALSE
    ELSE sha256_hexdigest(file_content) = sha256_on_record(model_id)

verify_model_integrity_presence_only(model_id, io_fails) ==
    IF ~get_model_info(model_id) THEN FALSE
    ELSE IF model_file_exists(model_id) /\ io_fails THEN FALSE
    ELSE is_model_downloaded(model_id)

\* verify_model_integrity, lines 253-289; io_fails: stat() raises in
\* is_model_downloaded, or reading the file raises (lines 287-289)
verify_model_integrity(model_id, io_fails) ==
    IF ~get_model_info(model_id) THEN FALSE
    ELSE IF sha256_on_record(model_id) = ""
    THEN IF model_file_exists(model_id) /\ io_fails THEN FALSE
         ELSE is_model_downloaded(model_id)
    ELSE IF ~model_file_exists(model_id) THEN FALSE
    ELSE IF io_fails THEN FALSE
    ELSE lower(sha256_hexdigest(file_content)) = lower(sha256_on_record(model_id))

VerifyModelIntegrity(model_id, io_fails) ==
    /\ mgr_call' = [op |-> "verify_model_integrity", model_id |-> model_id,
                    stat_raises |-> io_fails,
                    result |-> IF verify_model_integrity(model_id, io_fails)
                               THEN "True" ELSE "False"]
    /\ UNCHANGED <<svcVars, mgrFrame>>

VerifyModelIntegrityCall ==
    \E model_id \in ModelIds, io_fails \in BOOLEAN : VerifyModelIntegrity(model_id, io_fails)

NextManager ==
    \/ IsModelDownloadedCall
    \/ VerifyModelIntegrityCall
    \/ SetCurrentModel

\* the manager with a catalog whose download target may carry a checksum
DlCatalog ==
    /\ expected_sha256 \in ExpectedChecksums
    /\ task_pc = "off"
    /\ task_cancelled = FALSE
    /\ task_events = <<>>
    /\ dl_pc = "absent"
    /\ dl_cancelled = FALSE
    /\ dl_remaining = 0
    /\ dl_body = "none"
    /\ dl_report = "none"
    /\ dl_events = <<>>
    /\ dl_cancel_phase = "none"

\* the downloaded file is changed on disk after the download returned
\* (same size, other bytes)
CorruptFile ==
    /\ dl_pc = "returned"
    /\ file_exists
    /\ file_content /= "damaged"
    /\ file_content' = "damaged"
    /\ UNCHANGED <<file_exists, file_size, fsmVars, svcVars, mgrVars, catalogVars,
                   containerVars, dlVars, twVars>>

\* the file is removed from the models directory after the download returned
RemoveFile ==
    /\ dl_pc = "returned"
    /\ file_exists
    /\ file_exists' = FALSE
    /\ file_size' = 0
    /\ file_content' = "none"
    /\ UNCHANGED <<fsmVars, svcVars, mgrVars, catalogVars, containerVars, dlVars, twVars>>

\* a download that nobody cancels, with the manager asked about the model
\* before, during and after it
NextRoundTrip ==
    \/ (TaskStart /\ UNCHANGED dlFrame)
    \/ (TaskCheckCancelled /\ UNCHANGED dlFrame)
    \/ (TaskCreateWorker /\ UNCHANGED dlFrame)
    \/ (TaskSubmit /\ UNCHANGED dlFrame)
    \/ (DlConnect /\ UNCHANGED dlFrame)
    \/ (DlOpen /\ UNCHANGED dlFrame)
    \/ (DlChunk /\ UNCHANGED dlFrame)
    \/ (DlVerify /\ UNCHANGED dlFrame)
    \/ (DlHandler /\ UNCHANGED dlFrame)
    \/ (DlReport /\ UNCHANGED dlFrame)
    \/ IsModelDownloadedCall
    \/ VerifyModelIntegrityCall
    \/ CorruptFile
    \/ RemoveFile

\* ServiceContainer (app/core/service_factory.py)

MaxInstances == 3

\* names a caller can register and ask for
ServiceNames == {"a", "b"}

NoRecipe == [registered |-> FALSE, dep |-> "none", catches |-> FALSE, raises |-> FALSE]

\* a recipe is a callable: it may ask the container for one other service,
\* may swallow the exception of that nested get, and then either raises or
\* returns a new object
Recipes ==
    {r \in [registered : {TRUE}, dep : ServiceNames \cup {"none"}, catches : BOOLEAN,
            raises : BOOLEAN] :
        r.dep = "none" => ~r.catches}

NoGet == [name |-> "", outcome |-> "none", instance |-> 0, created |-> FALSE]

\* __init__, lines 27-30
ContainerInit ==
    /\ services = [n \in ServiceNames |-> 0]
    /\ recipes = [n \in ServiceNames |-> NoRecipe]
    /\ creating = {}
    /\ get_stack = <<>>
    /\ next_instance = 1
    /\ first_instance = [n \in ServiceNames |-> 0]
    /\ get_outcome = NoGet

\* register, lines 32-47, called by the program between gets
Register ==
    /\ get_stack = <<>>
    /\ \E name \in ServiceNames, recipe \in Recipes :
          recipes' = [recipes EXCEPT ![name] = recipe]
    /\ UNCHANGED <<services, creating, get_stack, next_instance, first_instance, get_outcome>>
    /\ UNCHANGED <<fsmVars, svcVars, fileVars, mgrVars, catalogVars, dlVars, twVars>>

has_instance_ignored(name) == FALSE

\* line 77: name in self._services
has_instance(name) == services[name] /= 0

\* lines 105-107: the finally clause of get
finally_discard(name) == creating \ {name}

\* a get call finishes with an instance or an exception: the caller, the
\* recipe on top of the stack callers or the program, receives the outcome
GetFinishes(callers, name, outcome, instance, created) ==
    /\ get_outcome' =
          [name |-> name, outcome |-> outcome, instance |-> instance, created |-> created]
    /\ first_instance' =
          IF outcome = "instance" /\ first_instance[name] = 0
          THEN [first_instance EXCEPT ![name] = instance]
          ELSE first_instance
    /\ get_stack' =
          IF callers = <<>> THEN <<>>
          ELSE [callers EXCEPT ![Len(callers)] =
                   [@ EXCEPT !.pc = "after_dep",
                             !.nested = IF outcome = "instance" THEN "value" ELSE outcome]]

\* get, lines 76-98: return the existing instance, raise ValueError for an
\* unregistered name, raise RuntimeError for a name being created, or mark
\* the name and call its recipe
get(name) ==
    IF has_instance(name) THEN
        /\ GetFinishes(get_stack, name, "instance", services[name], FALSE)
        /\ UNCHANGED <<services, creating, next_instance>>
    ELSE IF ~recipes[name].registered THEN
        /\ GetFinishes(get_stack, name, "ValueError", 0, FALSE)
        /\ UNCHANGED <<services, creating, next_instance>>
    ELSE IF name \in creating THEN
        /\ GetFinishes(get_stack, name, "RuntimeError", 0, FALSE)
        /\ UNCHANGED <<services, creating, next_instance>>
    ELSE
        /\ creating' = creating \cup {name}
        /\ get_stack' = Append(get_stack,
              [name |-> name, recipe |-> recipes[name], nested |-> "none",
               pc |-> IF recipes[name].dep = "none" THEN "body" ELSE "recipe"])
        /\ UNCHANGED <<services, next_instance, first_instance, get_outcome>>

TopGet == get_stack[Len(get_stack)]

Callers == SubSeq(get_stack, 1, Len(get_stack) - 1)

\* the program calls get
Get ==
    /\ get_stack = <<>>
    /\ \E name \in ServiceNames : get(name)
    /\ UNCHANGED recipes
    /\ UNCHANGED <<fsmVars, svcVars, fileVars, mgrVars, catalogVars, dlVars, twVars>>

\* the recipe that line 101 called calls get for the service it depends on
RecipeGet ==
    /\ get_stack /= <<>>
    /\ TopGet.pc = "recipe"
    /\ get(TopGet.recipe.dep)
    /\ UNCHANGED recipes
    /\ UNCHANGED <<fsmVars, svcVars, fileVars, mgrVars, catalogVars, dlVars, twVars>>

\* the nested get is back: its exception leaves the recipe and get (through
\* the finally clause) unless the recipe catches it
RecipeResume ==
    /\ get_stack /= <<>>
    /\ TopGet.pc = "after_dep"
    /\ IF TopGet.nested /= "value" /\ ~TopGet.recipe.catches THEN
           /\ creating' = finally_discard(TopGet.name)
           /\ GetFinishes(Callers, TopGet.name, TopGet.nested, 0, FALSE)
       ELSE
           /\ get_stack' = [get_stack EXCEPT ![Len(get_stack)].pc = "body"]
           /\ UNCHANGED <<creating, first_instance, get_outcome>>
    /\ UNCHANGED <<services, recipes, next_instance>>
    /\ UNCHANGED <<fsmVars, svcVars, fileVars, mgrVars, catalogVars, dlVars, twVars>>

\* lines 99-107: the recipe raises, or it returns a new object that get
\* stores and returns; the finally clause runs either way
RecipeBody ==
    /\ get_stack /= <<>>
    /\ TopGet.pc = "body"
    /\ creating' = finally_discard(TopGet.name)
    /\ IF TopGet.recipe.raises THEN
           /\ GetFinishes(Callers, TopGet.name, "RecipeError", 0, FALSE)
           /\ UNCHANGED <<services, next_instance>>
       ELSE
           /\ next_instance <= MaxInstances
           /\ services' = [services EXCEPT ![TopGet.name] = next_instance]
           /\ next_instance' = next_instance + 1
           /\ GetFinishes(Callers, TopGet.name, "instance", next_instance, TRUE)
    /\ UNCHANGED recipes
    /\ UNCHANGED <<fsmVars, svcVars, fileVars, mgrVars, catalogVars, dlVars, twVars>>

NextContainer == Register \/ Get \/ RecipeGet \/ RecipeResume \/ RecipeBody

InitFSM ==
    FsmInit /\ SvcOff /\ FileInitAbsent /\ DlIdle /\ TwOff /\ MgrInit /\ ContainerInit

SpecFSM == InitFSM /\ [][NextFSM]_vars

InitService ==
    FsmInit /\ SvcInit /\ FileInitAny /\ DlIdle /\ TwOff /\ MgrInit /\ ContainerInit

SpecService == InitService /\ [][NextService]_vars

\* a step of worker thread w: run() proceeds, the thread ends
WorkerStep(w) ==
    /\ \/ WorkerRunBegin(w)
       \/ \E raises \in BOOLEAN : WorkerLoadModel(w, raises)
       \/ \E raises \in BOOLEAN : WorkerTranscribe(w, raises)
       \/ WorkerThreadFinished(w)
    /\ UNCHANGED svcFrame

\* every started thread keeps running (the calls into the speech model
\* return), the event loop delivers queued signals, and wait() returns
FairService ==
    /\ \A w \in WorkerIds : WF_vars(WorkerStep(w))
    /\ WF_vars(OnTranscriptionCompleted /\ UNCHANGED svcFrame)
    /\ WF_vars(CancelTranscriptionEnd /\ UNCHANGED svcFrame)

SpecServiceLive == InitService /\ [][NextService]_vars /\ FairService

InitDownload ==
    FsmInit /\ SvcIdle /\ FileInitOld /\ DlInit /\ TwOff /\ MgrInit /\ ContainerInit

SpecDownload == InitDownload /\ [][NextDownload]_vars

InitWorker ==
    FsmInit /\ SvcOff /\ FileInitAbsent /\ DlIdle /\ TwInit /\ MgrInit /\ ContainerInit

SpecWorker == InitWorker /\ [][NextWorker]_vars

InitManager ==
    FsmInit /\ SvcInit /\ FileInitAny /\ DlCatalog /\ TwOff /\ MgrInit /\ ContainerInit

SpecManager == InitManager /\ [][NextManager]_vars

SpecRoundTrip == InitDownload /\ [][NextRoundTrip]_vars

InitCatalog ==
    FsmInit /\ SvcOff /\ FileInitAbsent /\ DlIdle /\ TwOff /\ CatalogInit /\ ContainerInit

SpecCatalog == InitCatalog /\ [][NextCatalog]_vars

InitContainer ==
    FsmInit /\ SvcOff /\ FileInitAbsent /\ DlIdle /\ TwOff /\ MgrInit /\ ContainerInit

SpecContainer == InitContainer /\ [][NextContainer]_vars

\* both kinds of transcription job: a service with its worker threads, or a
\* chunked TranscriptionWorker
InitJobs == InitService \/ InitWorker

NextJobs == NextService \/ NextWorker

SpecJobs == InitJobs /\ [][NextJobs]_vars

\* ------------------------------------------------------------------------
\* Properties
\* ------------------------------------------------------------------------

\* A step that is a call transition_to(t) made in state current_state
IsTransitionToCall ==
    /\ fsm_pc = "idle"
    /\ fsm_result' /= fsm_result
    /\ fsm_result'.op = "transition_to"

\* C1: for every state s and every target t not in VALID_TRANSITIONS[s],
\* transition_to(t, ...) fails with an error (ValueError) and leaves the
\* current state, the progress snapshot and the state history unchanged.
C1_InvalidTransitionRejected ==
    [][(IsTransitionToCall /\ fsm_result'.target \notin VALID_TRANSITIONS[current_state])
         => /\ fsm_result'.outcome = "ValueError"
            /\ fsm_result'.from = current_state
            /\ UNCHANGED <<current_state, progress, state_history, fsm_pc>>]_vars

\* a rejected call made after at least one successful transition
C1_Witness ==
    /\ fsm_result.outcome = "ValueError"
    /\ Len(state_history) > 1
    /\ fsm_result.from = current_state

\* the transition table as the specification states it
ClaimedTable ==
    {<<"READY", "PREPARING">>, <<"READY", "CANCELLED">>,
     <<"PREPARING", "DETECTING_LANGUAGE">>, <<"PREPARING", "TRANSCRIBING">>,
     <<"PREPARING", "FAILED">>, <<"PREPARING", "CANCELLED">>,
     <<"DETECTING_LANGUAGE", "TRANSCRIBING">>, <<"DETECTING_LANGUAGE", "FAILED">>,
     <<"DETECTING_LANGUAGE", "CANCELLED">>,
     <<"TRANSCRIBING", "POST_PROCESSING">>, <<"TRANSCRIBING", "COMPLETED">>,
     <<"TRANSCRIBING", "FAILED">>, <<"TRANSCRIBING", "CANCELLED">>,
     <<"POST_PROCESSING", "COMPLETED">>, <<"POST_PROCESSING", "FAILED">>,
     <<"POST_PROCESSING", "CANCELLED">>,
     <<"COMPLETED", "READY">>, <<"FAILED", "READY">>, <<"CANCELLED", "READY">>}

\* C2: transition_to / can_transition_to accept a (source, target) pair
\* exactly when it is in the specified table; no state can transition to
\* itself and from a terminal state the only accepted target is READY.
C2_TransitionTableExact ==
    /\ \A t \in TranscriptionState :
          can_transition_to(current_state, t) <=> <<current_state, t>> \in ClaimedTable
    /\ fsm_result.op = "transition_to" =>
          /\ (fsm_result.outcome /= "ValueError"
                 <=> <<fsm_result.from, fsm_result.target>> \in ClaimedTable)
          /\ (fsm_result.outcome /= "ValueError" => fsm_result.from /= fsm_result.target)
          /\ (fsm_result.outcome /= "ValueError" /\ is_terminal(fsm_result.from)
                 => fsm_result.target = "READY")

\* a restart accepted from a terminal state
C2_Witness ==
    /\ fsm_result.op = "transition_to"
    /\ fsm_result.outcome = "True"
    /\ is_terminal(fsm_result.from)
    /\ fsm_result.target = "READY"
    /\ current_state = "READY"

\* a worker that is inside run()
Executing(w) == workers[w].pc \in {"run", "load_model", "transcribe"}

\* C3: at every moment at most one transcription worker is executing, for
\* every interleaving of start_transcription, cancel_transcription and the
\* completion callbacks.
C3_AtMostOneWorkerExecuting ==
    Cardinality({w \in WorkerIds : Executing(w)}) <= 1

\* a step that is a call of start_transcription
IsStartTranscriptionCall ==
    /\ main_pc = "idle"
    /\ svc_call' /= svc_call
    /\ svc_call'.op = "start_transcription"

DownloadInProgress ==
    \/ dl_pc \in {"loop", "verify"}
    \/ (dl_pc = "report" /\ dl_report \in SuccessReports)

\* C6: while a model download is in progress is_model_downloaded returns
\* False for that model at every point, so no transcription job is started
\* against a model that is mid-download.
C6_NotUsableWhileDownloading ==
    DownloadInProgress => ~is_model_downloaded(DownloadModel)

\* the task and its worker (if any) have returned
DownloadReturned ==
    /\ task_pc = "returned"
    /\ dl_pc \in {"absent", "returned"}

\* C7: if a download is cancelled after it was started and before success was
\* reported, then once the worker has returned there is no downloaded file at
\* destination_path and no success has been reported.
C7_CancelLeavesNoFile ==
    (dl_cancel_phase = "during" /\ DownloadReturned)
        => /\ ~(file_exists /\ file_content /= "old")
           /\ ~SuccessReported

DigestMatches(content) == lower(sha256_hexdigest(content)) = lower(expected_sha256)

TerminalPositions(evs, terminals) == {i \in 1..Len(evs) : evs[i] \in terminals}

\* at most one terminal event, and nothing after it
TerminalOnceAndLast(evs, terminals) ==
    /\ Cardinality(TerminalPositions(evs, terminals)) <= 1
    /\ \A i \in TerminalPositions(evs, terminals) : i = Len(evs)

TwSignalNames == [i \in 1..Len(tw_events) |-> tw_events[i].sig]

\* C5: for each transcription job a terminal event (TranscriptionWorker
\* finished or error; WhisperTranscriptionWorker transcription_completed) is
\* delivered at most once, and no progress event of the job comes after it.
C5_TerminalEventOnceAndLast ==
    /\ \A w \in WorkerIds : TerminalOnceAndLast(workers[w].events, TerminalEvents)
    /\ TerminalOnceAndLast(TwSignalNames, TwTerminalSignals)
    /\ \A w \in pending : Cardinality(TerminalPositions(workers[w].events, TerminalEvents)) = 1

\* a job that ended with its terminal event after progress events
C5_Witness ==
    \/ \E w \in WorkerIds :
          /\ workers[w].pc = "finished"
          /\ Len(workers[w].events) = 6
          /\ workers[w].events[6] = "completed_ok"
    \/ /\ tw_pc = "done"
       /\ tw_events[Len(tw_events)].sig = "finished"
       /\ tw_num_chunks >= 2

\* the chunk texts of the transcript, without the separators
ChunkTexts == SelectSeq(transcript, LAMBDA t : t.kind /= "sep")

\* the job has opened (and truncated) its transcript file
TranscriptOpened ==
    \/ tw_pc = "chunks"
    \/ (tw_pc = "done" /\ tw_error \notin {"probe", "detect_extract", "open"})

\* C10: a chunk whose transcription call raises does not fail the job: an
\* inline error marker is written in place of its text, the remaining
\* chunks are still processed in order, and the job ends with finished.
C10_ChunkErrorIsolated ==
    /\ tw_error /= "transcribe"
    /\ TranscriptOpened =>
          /\ Len(ChunkTexts) = Len(tw_done_chunks)
          /\ \A j \in 1..Len(tw_done_chunks) :
                /\ tw_done_chunks[j].index = j - 1
                /\ ChunkTexts[j].chunk = j - 1
                /\ (tw_done_chunks[j].outcome = "raises"
                      <=> ChunkTexts[j].kind = "error_marker")
    /\ (tw_pc = "done" /\ tw_error = "none") =>
          /\ tw_events[Len(tw_events)].sig = "finished"
          /\ Len(tw_done_chunks) = tw_num_chunks

\* a finished job whose first chunk raised and whose later chunk has text
C10_Witness ==
    /\ tw_pc = "done"
    /\ tw_events[Len(tw_events)].sig = "finished"
    /\ Len(tw_done_chunks) >= 2
    /\ tw_done_chunks[1].outcome = "raises"
    /\ tw_done_chunks[2].outcome = "text"
    /\ ChunkTexts[1].kind = "error_marker"
    /\ ChunkTexts[2].kind = "text"

\* what a reader of the transcript file finds on disk
DiskTranscript == SubSeq(transcript, 1, tw_flushed)

\* the chunk texts on disk, without the separators
DiskChunkTexts == SelectSeq(DiskTranscript, LAMBDA t : t.kind /= "sep")

\* C11: a decode (audio extraction) failure for chunk i is caught, an error
\* marker is written into the transcript at position i and processing goes
\* on with chunk i+1; the job does not end with the error event because of it.
C11_DecodeErrorIsolated ==
    tw_error = "chunk_extract" =>
        /\ tw_events[Len(tw_events)].sig /= "error"
        /\ Len(ChunkTexts) > tw_i
        /\ ChunkTexts[tw_i + 1].kind = "error_marker"

\* the job ended with the error signal after it had opened its transcript
FailedAfterOpen == tw_pc = "done" /\ tw_error /= "none" /\ TranscriptOpened

\* C12: when a job fails after k chunks were written, the transcript file
\* holds exactly the texts of those k chunks followed by an error marker; a
\* failed job never leaves a transcript that ends without a marker.
C12_FailedJobLeavesMarker ==
    FailedAfterOpen =>
        /\ Len(DiskChunkTexts) = Len(tw_done_chunks) + 1
        /\ \A j \in 1..Len(tw_done_chunks) : DiskChunkTexts[j].chunk = j - 1
        /\ DiskChunkTexts[Len(DiskChunkTexts)].kind = "job_error_marker"

\* the job is past its language-detection step
DetectionStepDone ==
    \/ tw_pc \in {"open", "chunks"}
    \/ (tw_pc = "done" /\ tw_error /= "probe")

\* C13: if language detection fails at any of its steps (extraction of the
\* sample, loading the model, the detection call) the job falls back to the
\* language code 'en' and proceeds to chunked transcription; a detection
\* failure never makes the job end with the error event.
C13_DetectionFailureFallsBack ==
    DetectionStepDone =>
        /\ tw_error /= "detect_extract"
        /\ tw_language \in Languages

RECURSIVE SumLengths(_)
SumLengths(chunks) ==
    IF chunks = <<>> THEN 0 ELSE chunks[1].length + SumLengths(Tail(chunks))

\* the job has computed its chunk count
ChunkCountKnown ==
    \/ tw_pc = "chunks"
    \/ (tw_pc = "done" /\ tw_error \notin {"probe", "detect_extract"})

\* the job ended with finished
JobFinished == tw_pc = "done" /\ tw_error = "none"

\* C14: for every duration d > 0 the executor processes exactly ceil(d/600)
\* chunks, chunk i starting at i*600 with length min(600, d - i*600); the
\* chunks are contiguous, every length is in (0, 600], only the last chunk
\* may be shorter than 600, and the lengths sum to d (d = 1500: 600, 600, 300).
C14_ChunkGeometry ==
    /\ ChunkCountKnown =>
          /\ tw_num_chunks * 600 >= tw_duration
          /\ (tw_num_chunks - 1) * 600 < tw_duration
          /\ Len(tw_done_chunks) <= tw_num_chunks
    /\ \A j \in 1..Len(tw_done_chunks) :
          LET c == tw_done_chunks[j]
          IN  /\ c.index = j - 1
              /\ c.start = (j - 1) * 600
              /\ c.length = (IF tw_duration - c.start < 600
                             THEN tw_duration - c.start ELSE 600)
              /\ c.length > 0
              /\ c.length <= 600
              /\ (c.length < 600 => j = tw_num_chunks)
              /\ (j > 1 => c.start = tw_done_chunks[j - 1].start + tw_done_chunks[j - 1].length)
    /\ JobFinished =>
          /\ Len(tw_done_chunks) = tw_num_chunks
          /\ SumLengths(tw_done_chunks) = tw_duration
          /\ (tw_duration = 1500 =>
                [j \in 1..Len(tw_done_chunks) |-> tw_done_chunks[j].length] = <<600, 600, 300>>)

\* a finished job on a 1500-second memo: three chunks, the last of 300 seconds
C14_Witness ==
    /\ JobFinished
    /\ tw_duration = 1500
    /\ Len(tw_done_chunks) = 3
    /\ tw_done_chunks[3].start = 1200
    /\ tw_done_chunks[3].length = 300

IsPrefix(a, b) == Len(a) <= Len(b) /\ SubSeq(b, 1, Len(a)) = a

\* the progress signals of the chunk loop
ChunkProgress == SelectSeq(tw_events, LAMBDA e : e.sig = "progress_chunk")

\* chunk indices of the progress signals never decrease, the texts in the
\* transcript are in index order, and chunk c is announced only after the
\* texts of all chunks before it were appended
ChunksInIndexOrder ==
    /\ \A a, b \in 1..Len(ChunkProgress) :
          a < b => ChunkProgress[a].chunk <= ChunkProgress[b].chunk
    /\ TranscriptOpened =>
          /\ \A j \in 1..Len(ChunkTexts) : ChunkTexts[j].chunk = j - 1
          /\ \A a \in 1..Len(ChunkProgress) : Len(ChunkTexts) >= ChunkProgress[a].chunk - 1
          /\ IsPrefix(DiskTranscript, transcript)

\* what was written is never rewritten: a step of the chunk loop only
\* extends the transcript, in the file object and on disk
TranscriptOnlyGrows ==
    tw_pc = "chunks" =>
        /\ IsPrefix(transcript, transcript')
        /\ IsPrefix(DiskTranscript, DiskTranscript')

C16_SnapshotAgreesWithState ==
    progress.state = current_state

\* C17: every change of the current state made by any operation of the state
\* machine (transition_to and reset) is a transition allowed by the table.
C17_EveryChangeAllowed ==
    [][current_state' /= current_state
          => <<current_state, current_state'>> \in ClaimedTable]_vars

\* every pair of consecutive history states is an allowed transition
HistoryFollowsTable ==
    \A j \in 1..(Len(state_history) - 1) :
        <<state_history[j].state, state_history[j + 1].state>> \in ClaimedTable

\* between calls the history has one entry per successful transition after
\* the initial one, and ends with the current snapshot
HistoryCountsSuccesses ==
    /\ Len(state_history) = 1 + fsm_successes
    /\ HistoryFollowsTable
    /\ fsm_pc = "idle" => state_history[Len(state_history)] = progress

\* a transition_to call that returns True appends exactly its snapshot, a
\* rejected call appends nothing
HistoryAppendPerCall ==
    /\ (fsm_result'.op = "transition_to" /\ fsm_result.outcome = "running"
           /\ fsm_result'.outcome = "True")
          => state_history' = Append(state_history, progress')
    /\ (IsTransitionToCall /\ fsm_result'.outcome = "ValueError")
          => state_history' = state_history

\* C18: every successful transition_to appends exactly one entry to the
\* history and a rejected one appends none: the history length is 1 plus
\* the number of successful transitions, its last entry is the current
\* snapshot, and consecutive history states are allowed transitions.
C18_HistoryRecordsTransitions ==
    []HistoryCountsSuccesses /\ [][HistoryAppendPerCall]_vars

\* two successful transitions and a rejected call: three history entries
C18_Witness ==
    /\ fsm_pc = "idle"
    /\ fsm_successes = 2
    /\ Len(state_history) = 3
    /\ fsm_result.outcome = "ValueError"
    /\ state_history[3] = progress

PercentagesInRange ==
    /\ progress.percentage \in 0..100
    /\ \A j \in 1..Len(state_history) : state_history[j].percentage \in 0..100

\* the snapshot stored for a call with percentage p holds min(100, max(0, p))
StoresClampedPercentage ==
    (fsm_pc = "set_progress" /\ fsm_pc' = "append") =>
        progress'.percentage = (IF fsm_args.percentage < 0 THEN 0
                                ELSE IF fsm_args.percentage > 100 THEN 100
                                ELSE fsm_args.percentage)

\* C19: for every integer percentage p a successful transition_to stores
\* min(100, max(0, p)); the percentage of the current snapshot and of every
\* history entry is within 0..100 in every reachable state.
C19_PercentageClamped ==
    []PercentagesInRange /\ [][StoresClampedPercentage]_vars

\* a call with percentage 150 whose snapshot holds 100, after one with -5
\* whose history entry holds 0
C19_Witness ==
    /\ fsm_pc = "append"
    /\ fsm_args.percentage = 150
    /\ progress.percentage = 100
    /\ Len(state_history) = 2
    /\ state_history[2].percentage = 0
    /\ state_history[2].state = "PREPARING"

\* C20: is_model_downloaded(model_id) returns True exactly when the id is in
\* the catalog, the model file exists and its size is strictly greater than
\* 1,048,576 bytes; it returns False for an unknown id, a missing file, a
\* file of at most 1 MiB, or a file whose size cannot be read.
C20_UsableIffAboveFloor ==
    mgr_call.op = "is_model_downloaded" =>
        /\ mgr_call.result \in {"True", "False"}
        /\ mgr_call.result = "True"
              <=> /\ mgr_call.model_id \in {"tiny", "base"}
                  /\ mgr_call.model_id = DownloadModel
                  /\ file_exists
                  /\ file_size > 1048576
                  /\ ~mgr_call.stat_raises

\* the file holds exactly 1 MiB and the call for its model returned False
C20_Witness ==
    /\ mgr_call.op = "is_model_downloaded"
    /\ mgr_call.model_id = DownloadModel
    /\ ~mgr_call.stat_raises
    /\ file_exists
    /\ file_size = 1048576
    /\ mgr_call.result = "False"

\* two hex digests are equal when letter case is ignored
SameHexIgnoringCase(a, b) ==
    \/ a = b
    \/ {a, b} = {"9f2c", "9F2C"}
    \/ {a, b} = {"41d0", "41D0"}

\* C21: verify_model_integrity(model_id) returns False for an unknown id;
\* with no checksum on record it returns the result of is_model_downloaded
\* (presence and size floor only); otherwise it returns True exactly when
\* the file exists and its SHA-256 equals the expected checksum, compared
\* case-insensitively.
C21_VerifyIntegrity ==
    mgr_call.op = "verify_model_integrity" =>
        LET id == mgr_call.model_id
            known == id \in {"tiny", "base"}
            on_record == IF id = DownloadModel THEN expected_sha256 ELSE ""
            present == id = DownloadModel /\ file_exists
        IN  /\ ~known => mgr_call.result = "False"
            /\ (known /\ on_record = "") =>
                  (mgr_call.result = "True"
                      <=> present /\ file_size > 1048576 /\ ~mgr_call.stat_raises)
            /\ (known /\ on_record /= "") =>
                  (mgr_call.result = "True"
                      <=> /\ present
                          /\ ~mgr_call.stat_raises
                          /\ SameHexIgnoringCase(sha256_hexdigest(file_content), on_record))

\* the checksum on record is in upper case, the file is at most 1 MiB and
\* verification of it returned True
C21_Witness ==
    /\ mgr_call.op = "verify_model_integrity"
    /\ mgr_call.model_id = DownloadModel
    /\ expected_sha256 = "9F2C"
    /\ file_exists
    /\ file_content = "model"
    /\ file_size <= 1048576
    /\ mgr_call.result = "True"

\* the worker reported a verified download and has returned
VerifiedDownloadDone ==
    /\ dl_pc = "returned"
    /\ expected_sha256 /= ""
    /\ \E i \in 1..Len(dl_events) : dl_events[i] = "completed_success_verified"

\* a call on the manager about the downloaded model whose file access works
RoundTripCall(op) ==
    /\ mgr_call' /= mgr_call
    /\ mgr_call'.op = op
    /\ mgr_call'.model_id = DownloadModel
    /\ ~mgr_call'.stat_raises

\* the answers of the manager after a verified download
RoundTripAnswers ==
    VerifiedDownloadDone =>
        /\ (RoundTripCall("verify_model_integrity") /\ file_exists /\ file_content = dl_body)
              => mgr_call'.result = "True"
        /\ (RoundTripCall("verify_model_integrity") /\ file_exists /\ file_content /= dl_body)
              => mgr_call'.result = "False"
        /\ (RoundTripCall("is_model_downloaded") /\ file_exists /\ file_content /= dl_body)
              => (mgr_call'.result = "True" <=> file_size > 1048576)
        /\ (RoundTripCall("is_model_downloaded") /\ ~file_exists)
              => mgr_call'.result = "False"

\* C22: after ModelDownloadWorker reports success for a model with a known
\* checksum, verify_model_integrity returns True; after the file's content
\* is changed it returns False; is_model_downloaded for the corrupted file
\* (still above the size floor) stays True and is False once it is removed.
C22_RoundTrip ==
    [][RoundTripAnswers]_vars

\* a verified download above the size floor whose file was then changed:
\* verification of it returned False
C22_Witness ==
    /\ VerifiedDownloadDone
    /\ file_exists
    /\ file_content = "damaged"
    /\ file_size > 1048576
    /\ mgr_call.op = "verify_model_integrity"
    /\ mgr_call.model_id = DownloadModel
    /\ ~mgr_call.stat_raises
    /\ mgr_call.result = "False"

\* C23: for every duration d the language-detection sample is the whole
\* file [0, d] if d < 120 and otherwise the 120-second window
\* [d/2 - 60, d/2 + 60]; it lies within [0, d] and has length min(d, 120)
\* (d = 90: whole file; d = 1000: [440, 560]). Positions are in half seconds.
C23_DetectionSampleWindow ==
    DetectionStepDone =>
        LET d == tw_duration
            start2 == tw_sample.start_halves
            end2 == tw_sample.start_halves + 2 * tw_sample.length
        IN  /\ d < 120 => (start2 = 0 /\ end2 = 2 * d)
            /\ d >= 120 => (start2 = d - 120 /\ end2 = d + 120)
            /\ start2 >= 0
            /\ end2 <= 2 * d
            /\ tw_sample.length = (IF d < 120 THEN d ELSE 120)
            /\ d = 90 => (start2 = 0 /\ tw_sample.length = 90)
            /\ d = 1000 => (start2 = 2 * 440 /\ end2 = 2 * 560)

\* the sample of a 1000-second memo starts at second 440
C23_Witness ==
    /\ DetectionStepDone
    /\ tw_duration = 1000
    /\ tw_sample.start_halves = 880
    /\ tw_sample.length = 120

\* the sample taken from a 300-second memo is the window [90, 210]
SampleOf300IsCentered ==
    tw_sample.start_halves = 2 * 90 /\ tw_sample.length = 210 - 90

\* C24 as stated: for a 300-second file the language-detection sample is not
\* the window spanning seconds [90, 210].
C24_Sample300NotCentered ==
    (DetectionStepDone /\ tw_duration = 300) => ~SampleOf300IsCentered

\* C24 as the code has it: for a 300-second file (not shorter than 120
\* seconds) the language-detection sample is the centered window [90, 210].
C24_Sample300Centered ==
    (DetectionStepDone /\ tw_duration = 300) => SampleOf300IsCentered

\* a 300-second memo whose detection sample was taken
C24_Witness ==
    /\ DetectionStepDone
    /\ tw_duration = 300
    /\ tw_language \in Languages
    /\ tw_sample.length = 120

\* no model is selected, or the selected model is not downloaded
NoUsableModel == selected_model = "" \/ ~is_model_downloaded(selected_model)

\* C25: start_transcription, when no model is selected or the selected model
\* is not downloaded, returns False, delivers exactly one failure result for
\* that audio file, creates and starts no worker and leaves current_worker
\* unchanged.
C25_NoModelAbortsCleanly ==
    [][(IsStartTranscriptionCall /\ ~is_transcription_running /\ NoUsableModel)
         => /\ svc_call'.result = "False"
            /\ Len(svc_call'.emitted) = 1
            /\ svc_call'.emitted[1] \in {"completed_no_model_selected",
                                        "completed_not_downloaded"}
            /\ UNCHANGED <<workers, current_worker>>]_vars

\* the configuration inputs other than a valid document whose
\* whisper_models mapping has entries that are all objects
InputMissingOrMalformed ==
    \/ config_input.file \in {"missing", "unreadable", "invalid_json"}
    \/ /\ config_input.file = "valid"
       /\ \/ config_input.doc /= "models_mapping"
          \/ config_input.entries = {}
          \/ \E e \in config_input.entries : e[2] = "malformed"

\* C26: after the configuration was loaded from a missing, unreadable,
\* invalid or malformed input, get_available_models returns a list that is
\* not empty and holds tiny and base
C26_CatalogNeverEmpty ==
    (catalog_call.op = "get_available_models" /\ InputMissingOrMalformed)
        => /\ catalog_call.result = "list"
           /\ {"tiny", "base"} \subseteq catalog_call.ids

\* C27: every get that returns yields the instance that the first get of
\* that name returned, and no service is marked as being created when no
\* get is in progress
C27_SingletonPerName ==
    /\ get_outcome.outcome = "instance"
          => get_outcome.instance = first_instance[get_outcome.name]
    /\ get_stack = <<>> => creating = {}

\* a get finished at the program with a circular-dependency error after an
\* earlier get of the other service had returned an instance
C27_Witness ==
    /\ get_stack = <<>>
    /\ get_outcome.outcome = "RuntimeError"
    /\ \E n \in ServiceNames : first_instance[n] /= 0 /\ services[n] = first_instance[n]

\* download_cancelled and the download_completed signals of the worker
DlTerminalSignals ==
    {"download_cancelled", "completed_success", "completed_success_verified",
     "completed_failed_integrity", "completed_failed"}

DlCompletedSignals == DlTerminalSignals \ {"download_cancelled"}

\* the worker saw the cancellation flag when a chunk arrived
CancelObservedAtChunk ==
    /\ dl_pc = "loop"
    /\ dl_cancelled
    /\ dl_remaining > 0
    /\ dl_pc' \notin {"loop", "handler"}

\* a run of the worker emits at most one terminal signal and nothing after
\* it, and a run that returned has emitted one
OneTerminalSignal ==
    /\ TerminalOnceAndLast(dl_events, DlTerminalSignals)
    /\ dl_pc = "returned" => Cardinality(TerminalPositions(dl_events, DlTerminalSignals)) = 1
    /\ dl_pc \in {"report", "returned"} /\ dl_report = "download_cancelled"
          => \A i \in 1..Len(dl_events) : dl_events[i] \notin DlCompletedSignals

\* C28: each run of ModelDownloadWorker emits exactly one terminal signal,
\* as its last signal: download_cancelled when the flag was seen at a chunk,
\* otherwise one download_completed, never both and never two
C28_OneTerminalSignal ==
    /\ []OneTerminalSignal
    /\ [][CancelObservedAtChunk => dl_report' = "download_cancelled"]_vars
    /\ [][(dl_pc = "report" /\ dl_pc' = "returned")
              => dl_events' = Append(dl_events, dl_report)]_vars

\* a cancelled run has returned after the download had begun
C28_Witness ==
    /\ dl_pc = "returned"
    /\ dl_cancelled
    /\ Len(dl_events) >= 3
    /\ dl_events[Len(dl_events)] = "download_cancelled"

\* worker w has emitted transcription_completed
CompletionEmitted(w) == TerminalPositions(workers[w].events, TerminalEvents) /= {}

\* C29: every transcription job that was started, a cancelled one included,
\* eventually delivers a completion event to its listeners
C29_EveryJobDeliversCompletion ==
    \A w \in WorkerIds : (workers[w].pc = "run") ~> CompletionEmitted(w)

\* the run failed at the connection or the response status: no body was
\* accepted and the destination was not opened
FailedBeforeOpen ==
    /\ dl_pc = "handler"
    /\ dl_body = "none"
    /\ \A i \in 1..Len(dl_events) : dl_events[i] /= "status_downloading"

\* C30: a download that fails before any byte is written (connection error
\* or non-success HTTP response) leaves a file that already existed at
\* destination_path as it was, in existence and content
C30_EarlyFailureKeepsOldFile ==
    [][FailedBeforeOpen => UNCHANGED fileVars]_vars

====
